---- MODULE Spec2Model ----
(***************************************************************************)
(* Model of the OMR sheet generator (app.py).                              *)
(*                                                                         *)
(* Python strings are sequences of one-character strings, so that strip,   *)
(* zfill, slicing, regular-expression substitution and number parsing are  *)
(* computed character by character as the interpreter computes them.       *)
(* Lengths on the page are exact integers: the calibration tables are in   *)
(* hundredths of a centimetre and page coordinates are in units of         *)
(* 1/2200 cm, in which both "X * cm / 2.2" and "Y * cm" are whole numbers. *)
(***************************************************************************)
EXTENDS Integers, Sequences, FiniteSets, TLC

VARIABLES
    pc,            \* position of the script run
    sheet_names,   \* xls.sheet_names of the uploaded workbook
    templates_ok,  \* both template files exist on disk
    sheet_idx,     \* index of the worksheet being processed
    df_cols,       \* df.columns of the current worksheet
    df_rows,       \* rows of the current worksheet, in sheet order
    col_map,       \* canonical field -> original header or None
    row_idx,       \* number of rows of the current worksheet already iterated
    pages,         \* pages finalized on the current canvas
    zipf,          \* entries written to the archive, in order
    read_rows,     \* history: number of rows of every worksheet read so far
    processed,     \* history: <<sheet index, row index>> of every row iterated
    download,      \* the download button has been offered
    load_failed,   \* history: ImageReader / drawImage raised in this run
    fn,            \* unit harness: function under evaluation
    arg,           \* unit harness: its argument
    res            \* unit harness: its result

vars == <<pc, sheet_names, templates_ok, sheet_idx, df_cols, df_rows, col_map,
          row_idx, pages, zipf, read_rows, processed, download, load_failed,
          fn, arg, res>>

pipeVars == <<pc, sheet_names, templates_ok, sheet_idx, df_cols, df_rows, col_map,
              row_idx, pages, zipf, read_rows, processed, download, load_failed>>

unitVars == <<fn, arg, res>>

(***************************************************************************)
(* Bounds of the model.                                                    *)
(***************************************************************************)
MaxLen == 3        \* longest enumerated string
MaxCols == 2       \* most headers in an enumerated header row
MaxSheets == 2     \* most worksheets in a workbook
MaxRows == 2       \* most rows in a worksheet
MaxRoll == 1200    \* largest magnitude of an enumerated numeric roll-number cell
MaxGrade == 13     \* largest enumerated numeric class cell

(***************************************************************************)
(* Characters and Python string primitives.                                *)
(***************************************************************************)
Digits == <<"0", "1", "2", "3", "4", "5", "6", "7", "8", "9">>

UpperSeq == <<"A", "B", "C", "D", "E", "F", "G", "H", "I", "J", "K", "L", "M",
              "N", "O", "P", "Q", "R", "S", "T", "U", "V", "W", "X", "Y", "Z">>

LowerSeq == <<"a", "b", "c", "d", "e", "f", "g", "h", "i", "j", "k", "l", "m",
              "n", "o", "p", "q", "r", "s", "t", "u", "v", "w", "x", "y", "z">>

Range(f) == {f[i] : i \in DOMAIN f}

IsDigit(c) == c \in Range(Digits)

DigitVal(c) == (CHOOSE i \in 1..10 : Digits[i] = c) - 1

IsSpace(c) == c \in {" ", "\t", "\n"}

LowerChar(c) ==
    IF c \in Range(UpperSeq)
    THEN LowerSeq[CHOOSE i \in 1..26 : UpperSeq[i] = c]
    ELSE c

lower(s) == [i \in 1..Len(s) |-> LowerChar(s[i])]

strip(s) ==
    LET keep == {i \in 1..Len(s) : ~IsSpace(s[i])}
    IN  IF keep = {} THEN <<>>
        ELSE SubSeq(s, CHOOSE i \in keep : \A j \in keep : i <= j,
                       CHOOSE i \in keep : \A j \in keep : i >= j)

Zeros(n) == [i \in 1..n |-> "0"]

zfill(s, w) ==
    IF Len(s) >= w THEN s
    ELSE IF Len(s) > 0 /\ s[1] \in {"+", "-"}
         THEN <<s[1]>> \o Zeros(w - Len(s)) \o Tail(s)
         ELSE Zeros(w - Len(s)) \o s

Prefix(s, n) == SubSeq(s, 1, IF Len(s) < n THEN Len(s) ELSE n)

isdigit(s) == Len(s) > 0 /\ \A i \in 1..Len(s) : IsDigit(s[i])

RECURSIVE int_of_digits(_)
int_of_digits(s) ==
    IF s = <<>> THEN 0
    ELSE 10 * int_of_digits(SubSeq(s, 1, Len(s) - 1)) + DigitVal(s[Len(s)])

RECURSIVE str_of_nat(_)
str_of_nat(n) ==
    IF n < 10 THEN <<Digits[n + 1]>>
    ELSE str_of_nat(n \div 10) \o <<Digits[(n % 10) + 1]>>

str_of_int(n) == IF n < 0 THEN <<"-">> \o str_of_nat(-n) ELSE str_of_nat(n)

Contains(hay, needle) ==
    \E i \in 1..(Len(hay) - Len(needle) + 1) :
        SubSeq(hay, i, i + Len(needle) - 1) = needle

(***************************************************************************)
(* Spreadsheet cells (dtype=object): missing, int, float, str, datetime.   *)
(* A float cell holds n tenths; str(float) is its shortest repr.           *)
(***************************************************************************)
NaN == [kind |-> "nan", n |-> 0, s |-> <<>>]
IntCell(k) == [kind |-> "int", n |-> k, s |-> <<>>]
FloatCell(tenths) == [kind |-> "float", n |-> tenths, s |-> <<>>]
StrCell(t) == [kind |-> "str", n |-> 0, s |-> t]
DateCell == [kind |-> "datetime", n |-> 0, s |-> <<>>]

Abs(n) == IF n < 0 THEN -n ELSE n

isna(v) == v.kind = "nan"

str(v) ==
    CASE v.kind = "int" -> str_of_int(v.n)
      [] v.kind = "float" ->
            (IF v.n < 0 THEN <<"-">> ELSE <<>>)
            \o str_of_nat(Abs(v.n) \div 10) \o <<".">> \o str_of_nat(Abs(v.n) % 10)
      [] v.kind = "str" -> v.s
      [] v.kind = "nan" -> <<"n", "a", "n">>
      [] v.kind = "datetime" ->
            <<"2", "0", "2", "4", "-", "0", "1", "-", "0", "1", " ", "0", "0", ":", "0", "0", ":", "0", "0">>

(***************************************************************************)
(* float(v) and int(f).  A float is kept as sign and whole part, which is  *)
(* all that int() reads; "inf" and "nan" are kept apart because int()      *)
(* raises on them.  The string grammar is optional surrounding white       *)
(* space, an optional sign, then inf / infinity / nan in any case, or      *)
(* digits with at most one point and at least one digit.                   *)
(***************************************************************************)
Num(neg, whole) == [kind |-> "num", neg |-> neg, whole |-> whole]
Special(k) == [kind |-> k, neg |-> FALSE, whole |-> 0]

float_of_str(t) ==
    LET u == strip(t)
        signed == Len(u) > 0 /\ u[1] \in {"+", "-"}
        neg == signed /\ u[1] = "-"
        body == IF signed THEN Tail(u) ELSE u
        word == lower(body)
        dots == {i \in 1..Len(body) : body[i] = "."}
        dot == IF dots = {} THEN Len(body) + 1 ELSE CHOOSE i \in dots : TRUE
        ip == SubSeq(body, 1, dot - 1)
        fp == SubSeq(body, dot + 1, Len(body))
    IN  IF word \in {<<"i", "n", "f">>, <<"i", "n", "f", "i", "n", "i", "t", "y">>}
        THEN Special("inf")
        ELSE IF word = <<"n", "a", "n">> THEN Special("nan")
        ELSE IF /\ Cardinality(dots) <= 1
                /\ \A i \in 1..Len(ip) : IsDigit(ip[i])
                /\ \A i \in 1..Len(fp) : IsDigit(fp[i])
                /\ Len(ip) + Len(fp) > 0
        THEN Num(neg, int_of_digits(ip))
        ELSE Special("ValueError")

float(v) ==
    CASE v.kind = "int" -> Num(v.n < 0, Abs(v.n))
      [] v.kind = "float" -> Num(v.n < 0, Abs(v.n) \div 10)
      [] v.kind = "nan" -> Special("nan")
      [] v.kind = "str" -> float_of_str(v.s)
      [] v.kind = "datetime" -> Special("TypeError")

int_of_float(f) == IF f.neg THEN -f.whole ELSE f.whole

(***************************************************************************)
(* Outcome of a call: a returned value or an exception that propagates.    *)
(***************************************************************************)
Ret(x) == [exc |-> "none", val |-> x]
Raise(e) == [exc |-> e, val |-> <<>>]

(***************************************************************************)
(* Utility functions.                                                      *)
(***************************************************************************)
normalize_col_name(s) ==
    IF s = <<>> THEN <<>>
    ELSE SelectSeq(strip(lower(s)),
                   LAMBDA c : c \in Range(LowerSeq) \/ IsDigit(c))

None == <<"None">>

FirstIndex(S) == CHOOSE i \in S : \A j \in S : i <= j

\* variant: one pass that takes the first header matching exactly or by substring
find_column_single_pass(df_cols_, aliases_) ==
    LET norm(i) == normalize_col_name(df_cols_[i])
        hit == {i \in 1..Len(df_cols_) :
                    \E k \in 1..Len(aliases_) :
                        norm(i) = aliases_[k] \/ Contains(norm(i), aliases_[k])}
    IN  IF hit # {} THEN df_cols_[FirstIndex(hit)] ELSE None

find_column(df_cols_, aliases_) ==
    LET norm(i) == normalize_col_name(df_cols_[i])
        exact == {i \in 1..Len(df_cols_) :
                    \E k \in 1..Len(aliases_) : norm(i) = aliases_[k]}
        inside == {i \in 1..Len(df_cols_) :
                    \E k \in 1..Len(aliases_) : Contains(norm(i), aliases_[k])}
    IN  IF exact # {} THEN df_cols_[FirstIndex(exact)]
        ELSE IF inside # {} THEN df_cols_[FirstIndex(inside)]
        ELSE None

FilenameIllegal == {"\\", "/", "*", "?", ":", "\"", "<", ">", "|"}

FilenameMax == 200

RECURSIVE collapse_space(_)
collapse_space(s) ==
    IF s = <<>> THEN <<>>
    ELSE IF IsSpace(s[1])
         THEN IF Len(s) > 1 /\ IsSpace(s[2])
              THEN collapse_space(Tail(s))
              ELSE <<"_">> \o collapse_space(Tail(s))
         ELSE <<s[1]>> \o collapse_space(Tail(s))

safe_filename(s) ==
    LET s1 == strip(s)
        s2 == [i \in 1..Len(s1) |-> IF s1[i] \in FilenameIllegal THEN "_" ELSE s1[i]]
        s3 == collapse_space(s2)
    IN  Prefix(s3, FilenameMax)

\* variant: the blank test of line 63 left out
format_roll_value_keeps_blank(v) ==
    IF isna(v) THEN Ret(<<"0", "0", "0">>)
    ELSE LET f == float(v)
         IN  CASE f.kind = "num" -> Ret(zfill(str_of_int(int_of_float(f)), 3))
               [] f.kind \in {"ValueError", "nan"} -> Ret(Prefix(zfill(str(v), 3), 3))
               [] f.kind = "inf" -> Raise("OverflowError")
               [] f.kind = "TypeError" -> Raise("TypeError")

format_roll_value(v) ==
    IF isna(v) \/ strip(str(v)) = <<>> THEN Ret(<<"0", "0", "0">>)
    ELSE LET f == float(v)
         IN  CASE f.kind = "num" -> Ret(zfill(str_of_int(int_of_float(f)), 3))
               [] f.kind \in {"ValueError", "nan"} -> Ret(Prefix(zfill(str(v), 3), 3))
               [] f.kind = "inf" -> Raise("OverflowError")
               [] f.kind = "TypeError" -> Raise("TypeError")

(***************************************************************************)
(* Calibration tables, in hundredths of a centimetre.  cm is the length of *)
(* one hundredth of a centimetre in page units of 1/2200 cm.               *)
(***************************************************************************)
cm == 22

MASTER_ROLL_X_CM == <<1010, 1150, 1290>>
MASTER_BUBBLE_Y_TOP_CM == <<2200, 2200, 2200>>
MASTER_BUBBLE_SPACING_CM == 62
MASTER_BUBBLE_RADIUS_CM == 24

SHIFT_X_CM == 600
SHIFT_Y_CM == -30
CHILD_ROLL_X_CM == <<990 + SHIFT_X_CM, 1130 + SHIFT_X_CM, 1260 + SHIFT_X_CM>>
CHILD_BUBBLE_Y_TOP_CM == <<2150 + SHIFT_Y_CM, 2150 + SHIFT_Y_CM, 2150 + SHIFT_Y_CM>>
CHILD_BUBBLE_SPACING_CM == 61
CHILD_BUBBLE_RADIUS_CM == 23

Circle(x, y, r) == [x |-> x, y |-> y, r |-> r]

DigitPositions(s) == SelectSeq([i \in 1..Len(s) |-> i], LAMBDA i : IsDigit(s[i]))

(***************************************************************************)
(* Roll filling functions.  The result is the sequence of circles stamped, *)
(* in stamping order.  The tables have three entries, so a digit at a      *)
(* fourth or later position raises IndexError.                             *)
(***************************************************************************)
fill_roll_bubbles_master(roll_no_) ==
    LET roll_no == zfill(roll_no_, 3)
        at == DigitPositions(roll_no)
    IN  IF \E k \in 1..Len(at) : at[k] > Len(MASTER_ROLL_X_CM)
        THEN Raise("IndexError")
        ELSE Ret([k \in 1..Len(at) |->
                LET i == at[k]
                    digit == DigitVal(roll_no[i])
                IN  Circle((MASTER_ROLL_X_CM[i] * cm * 10) \div 22,
                           MASTER_BUBBLE_Y_TOP_CM[i] * cm
                             - digit * MASTER_BUBBLE_SPACING_CM * cm
                             - (260 * cm) + 3 * cm,
                           MASTER_BUBBLE_RADIUS_CM * cm)])

\* variant: the child function stepping by the master sheet's row spacing
fill_roll_bubbles_child_master_spacing(roll_no_) ==
    LET roll_no == zfill(roll_no_, 3)
        at == DigitPositions(roll_no)
    IN  IF \E k \in 1..Len(at) : at[k] > Len(CHILD_ROLL_X_CM)
        THEN Raise("IndexError")
        ELSE Ret([k \in 1..Len(at) |->
                LET i == at[k]
                    digit == DigitVal(roll_no[i])
                IN  Circle((CHILD_ROLL_X_CM[i] * cm * 10) \div 22,
                           CHILD_BUBBLE_Y_TOP_CM[i] * cm
                             - digit * MASTER_BUBBLE_SPACING_CM * cm
                             - (260 * cm) + 20 * cm,
                           CHILD_BUBBLE_RADIUS_CM * cm)])

fill_roll_bubbles_child(roll_no_) ==
    LET roll_no == zfill(roll_no_, 3)
        at == DigitPositions(roll_no)
    IN  IF \E k \in 1..Len(at) : at[k] > Len(CHILD_ROLL_X_CM)
        THEN Raise("IndexError")
        ELSE Ret([k \in 1..Len(at) |->
                LET i == at[k]
                    digit == DigitVal(roll_no[i])
                IN  Circle((CHILD_ROLL_X_CM[i] * cm * 10) \div 22,
                           CHILD_BUBBLE_Y_TOP_CM[i] * cm
                             - digit * CHILD_BUBBLE_SPACING_CM * cm
                             - (260 * cm) + 20 * cm,
                           CHILD_BUBBLE_RADIUS_CM * cm)])

draw_roll_number_text(roll_no_, template) ==
    LET roll_no == zfill(roll_no_, 3)
        text_y == IF template = "master"
                  THEN MASTER_BUBBLE_Y_TOP_CM[1] * cm - (210 * cm)
                  ELSE CHILD_BUBBLE_Y_TOP_CM[1] * cm - (200 * cm)
        x_positions == IF template = "master" THEN MASTER_ROLL_X_CM ELSE CHILD_ROLL_X_CM
    IN  IF Len(roll_no) > Len(x_positions)
        THEN Raise("IndexError")
        ELSE Ret([i \in 1..Len(roll_no) |->
                [x |-> (x_positions[i] * cm * 10) \div 22, y |-> text_y, ch |-> roll_no[i]]])

(***************************************************************************)
(* Class parsing.  The integer -1 stands for Python's None: a digit run    *)
(* never parses to a negative number.                                      *)
(***************************************************************************)
NoneInt == -1

roman_map == << <<"i">>, <<"i", "i">>, <<"i", "i", "i">>, <<"i", "v">>, <<"v">>, <<"v", "i">>, <<"v", "i", "i">>, <<"v", "i", "i", "i">>, <<"i", "x">>,
                <<"x">>, <<"x", "i">>, <<"x", "i", "i">> >>

words_map == << <<"f", "i", "r", "s", "t">>, <<"s", "e", "c", "o", "n", "d">>, <<"t", "h", "i", "r", "d">>, <<"f", "o", "u", "r", "t", "h">>, <<"f", "i", "f", "t", "h">>, <<"s", "i", "x", "t", "h">>,
                <<"s", "e", "v", "e", "n", "t", "h">>, <<"e", "i", "g", "h", "t", "h">>, <<"n", "i", "n", "t", "h">>, <<"t", "e", "n", "t", "h">>, <<"e", "l", "e", "v", "e", "n", "t", "h">>, <<"t", "w", "e", "l", "f", "t", "h">> >>

first_digit_run(s) ==
    LET at == DigitPositions(s)
        from == at[1]
        stops == {j \in from..Len(s) : ~IsDigit(s[j])}
        to == IF stops = {} THEN Len(s) ELSE FirstIndex(stops) - 1
    IN  SubSeq(s, from, to)

\* variant: the string is stripped but not lower-cased
parse_class_value_case_sensitive(class_val) ==
    IF isna(class_val) THEN NoneInt
    ELSE LET s == strip(str(class_val))
         IN  IF isdigit(s) THEN int_of_digits(s)
             ELSE IF DigitPositions(s) # <<>> THEN int_of_digits(first_digit_run(s))
             ELSE IF \E k \in 1..Len(roman_map) : roman_map[k] = s
                  THEN CHOOSE k \in 1..Len(roman_map) : roman_map[k] = s
             ELSE IF \E k \in 1..Len(words_map) : words_map[k] = s
                  THEN CHOOSE k \in 1..Len(words_map) : words_map[k] = s
             ELSE NoneInt

parse_class_value(class_val) ==
    IF isna(class_val) THEN NoneInt
    ELSE LET s == lower(strip(str(class_val)))
         IN  IF isdigit(s) THEN int_of_digits(s)
             ELSE IF DigitPositions(s) # <<>> THEN int_of_digits(first_digit_run(s))
             ELSE IF \E k \in 1..Len(roman_map) : roman_map[k] = s
                  THEN CHOOSE k \in 1..Len(roman_map) : roman_map[k] = s
             ELSE IF \E k \in 1..Len(words_map) : words_map[k] = s
                  THEN CHOOSE k \in 1..Len(words_map) : words_map[k] = s
             ELSE NoneInt

(***************************************************************************)
(* The worksheet loop.                                                     *)
(***************************************************************************)
child_omr_template == "child_omr.jpg"
master_omr_template == "master_omr.jpg"

aliases ==
    [school_name |-> << <<"s", "c", "h", "o", "o", "l", "n", "a", "m", "e">>, <<"s", "c", "o", "o", "l", "n", "a", "m", "e">>, <<"s", "c", "h", "o", "o", "l">> >>,
     class |-> << <<"c", "l", "a", "s", "s">>, <<"g", "r", "a", "d", "e">>, <<"s", "t", "a", "n", "d", "a", "r", "d">> >>,
     division |-> << <<"d", "i", "v", "i", "s", "i", "o", "n">>, <<"s", "e", "c", "t", "i", "o", "n">> >>,
     roll_no |-> << <<"r", "o", "l", "l", "n", "o">>, <<"r", "o", "l", "l", "n", "u", "m", "b", "e", "r">>, <<"r", "o", "l", "l", "_", "n", "o">> >>,
     student_name |-> << <<"n", "a", "m", "e", "o", "f", "t", "h", "e", "s", "t", "u", "d", "e", "n", "t">>, <<"n", "a", "m", "e">>, <<"s", "t", "u", "d", "e", "n", "t", "n", "a", "m", "e">> >>]

\* row.get(col_map[canon], "") if col_map[canon] else ""
row_get(row, cols, col) ==
    IF col = None \/ col = <<>> THEN StrCell(<<>>)
    ELSE row[CHOOSE i \in 1..Len(cols) : cols[i] = col]

\* variant: the child grades taken as range(1, 3)
select_template_range_1_3(parsed_class) ==
    IF parsed_class # NoneInt /\ parsed_class \in {1, 2}
    THEN [omr_template |-> child_omr_template, template_type |-> "child"]
    ELSE [omr_template |-> master_omr_template, template_type |-> "master"]

select_template(parsed_class) ==
    IF parsed_class # NoneInt /\ parsed_class \in {1, 2, 3}
    THEN [omr_template |-> child_omr_template, template_type |-> "child"]
    ELSE [omr_template |-> master_omr_template, template_type |-> "master"]

fill_roll_bubbles(template_type, roll_no) ==
    IF template_type = "child"
    THEN fill_roll_bubbles_child(roll_no)
    ELSE fill_roll_bubbles_master(roll_no)

\* variant: the new page put in front of the finished ones
showPage_prepends(pages_, page) == <<page>> \o pages_

showPage(pages_, page) == Append(pages_, page)

pdf_data(pages_) == [k \in 1..Len(pages_) |-> pages_[k].row]

(***************************************************************************)
(* Inputs of the worksheet loop: worksheet names (unique within a          *)
(* workbook), header rows, and cells.                                      *)
(***************************************************************************)
SeqsUpTo(S, n) == UNION {[1..k -> S] : k \in 0..n}

Distinct(q) == \A i, j \in 1..Len(q) : i # j => q[i] # q[j]

SheetNamePool == { <<"A", " ", "B">>, <<"A", "_", "B">>, <<"Q", "1">> }

Workbooks == {w \in SeqsUpTo(SheetNamePool, MaxSheets) : Len(w) >= 1 /\ Distinct(w)}

LayoutPool == { << <<"R", "o", "l", "l", " ", "N", "o", ".">>, <<"C", "l", "a", "s", "s">> >>, << <<"G", "r", "a", "d", "e">> >> }

CellPool == {NaN, IntCell(3), IntCell(1234)}

GradeCellPool == {IntCell(1), IntCell(2), IntCell(4), StrCell(<<"I", "I">>), StrCell(<<"X", "I", "I", "I">>)}

\* a worksheet with the single column "Grade" draws its cells from GradeCellPool
Frames(cols) ==
    SeqsUpTo([1..Len(cols) -> IF Len(cols) = 1 THEN GradeCellPool ELSE CellPool], MaxRows)

(***************************************************************************)
(* The script run after a file has been uploaded.                          *)
(***************************************************************************)
UnitIdle == fn = "none" /\ arg = <<>> /\ res = <<>>

Init ==
    /\ pc = "start"
    /\ sheet_names \in Workbooks
    /\ templates_ok \in BOOLEAN
    /\ sheet_idx = 0
    /\ df_cols = <<>>
    /\ df_rows = <<>>
    /\ col_map = [canon \in DOMAIN aliases |-> None]
    /\ row_idx = 0
    /\ pages = <<>>
    /\ zipf = <<>>
    /\ read_rows = <<>>
    /\ processed = <<>>
    /\ download = FALSE
    /\ load_failed = FALSE
    /\ UnitIdle

\* variant: the failure is reported but the loop goes on to the next row
st_stop_continues ==
    /\ pc' = "row"
    /\ row_idx' = row_idx + 1
    /\ UNCHANGED pages

\* st.stop(): the script run ends here; nothing after it executes.
st_stop ==
    /\ pc' = "stopped"
    /\ UNCHANGED <<row_idx, pages>>

\* an exception nobody catches ends the script run as well
Crash ==
    /\ pc' = "crashed"
    /\ UNCHANGED <<row_idx, pages>>

CheckTemplates ==
    /\ pc = "start"
    /\ pc' = IF templates_ok THEN "sheet" ELSE "stopped"
    /\ UNCHANGED <<sheet_names, templates_ok, sheet_idx, df_cols, df_rows, col_map,
                   row_idx, pages, zipf, read_rows, processed, download, load_failed>>
    /\ UNCHANGED unitVars

BeginSheet ==
    /\ pc = "sheet"
    /\ sheet_idx < Len(sheet_names)
    /\ \E cols \in LayoutPool :
          /\ df_cols' = cols
          /\ col_map' = [canon \in DOMAIN aliases |-> find_column(cols, aliases[canon])]
          /\ \E frame \in Frames(cols) :
                /\ df_rows' = frame
                /\ read_rows' = Append(read_rows, Len(frame))
    /\ sheet_idx' = sheet_idx + 1
    /\ row_idx' = 0
    /\ pages' = <<>>
    /\ pc' = "row"
    /\ UNCHANGED <<sheet_names, templates_ok, zipf, processed, download, load_failed>>
    /\ UNCHANGED unitVars

RenderRow ==
    /\ pc = "row"
    /\ row_idx < Len(df_rows)
    /\ LET row == df_rows[row_idx + 1]
           student_name == row_get(row, df_cols, col_map.student_name)
           school_name == row_get(row, df_cols, col_map.school_name)
           class_name == row_get(row, df_cols, col_map.class)
           division == row_get(row, df_cols, col_map.division)
           roll_no_raw == row_get(row, df_cols, col_map.roll_no)
           roll_no == format_roll_value(roll_no_raw)
           parsed_class == parse_class_value(class_name)
           sel == select_template(parsed_class)
           bubbles == fill_roll_bubbles(sel.template_type, roll_no.val)
           text == draw_roll_number_text(roll_no.val, sel.template_type)
       IN  IF roll_no.exc # "none" THEN Crash /\ UNCHANGED load_failed
           ELSE \E image_loads \in BOOLEAN :
                  IF ~image_loads THEN load_failed' = TRUE /\ st_stop
                  ELSE IF bubbles.exc # "none" \/ text.exc # "none"
                       THEN Crash /\ UNCHANGED load_failed
                  ELSE /\ pages' = showPage(pages,
                              [row |-> row_idx + 1,
                               image |-> sel.omr_template,
                               bubble_layout |-> sel.template_type,
                               circles |-> bubbles.val,
                               text_layout |-> sel.template_type,
                               text |-> text.val,
                               table |-> <<student_name, school_name, class_name, division>>])
                       /\ row_idx' = row_idx + 1
                       /\ pc' = "row"
                       /\ UNCHANGED load_failed
    /\ processed' = Append(processed, <<sheet_idx, row_idx + 1>>)
    /\ UNCHANGED <<sheet_names, templates_ok, sheet_idx, df_cols, df_rows, col_map,
                   zipf, read_rows, download>>
    /\ UNCHANGED unitVars

\* c.save(), pdf_buffer.close(), zipf.writestr(...).  The canvas is finished and
\* df, col_map and c are dead from here on: each is rebound at the top of the
\* next iteration before it is read again, so they are cleared.
SaveSheet ==
    /\ pc = "row"
    /\ row_idx = Len(df_rows)
    /\ zipf' = Append(zipf, [name |-> safe_filename(sheet_names[sheet_idx]) \o <<".", "p", "d", "f">>,
                             pdf |-> pdf_data(pages)])
    /\ pc' = "sheet"
    /\ df_cols' = <<>>
    /\ df_rows' = <<>>
    /\ col_map' = [canon \in DOMAIN aliases |-> None]
    /\ row_idx' = 0
    /\ pages' = <<>>
    /\ UNCHANGED <<sheet_names, templates_ok, sheet_idx, read_rows, processed, download,
                   load_failed>>
    /\ UNCHANGED unitVars

OfferDownload ==
    /\ pc = "sheet"
    /\ sheet_idx = Len(sheet_names)
    /\ download' = TRUE
    /\ pc' = "done"
    /\ UNCHANGED <<sheet_names, templates_ok, sheet_idx, df_cols, df_rows, col_map,
                   row_idx, pages, zipf, read_rows, processed, load_failed>>
    /\ UNCHANGED unitVars

Next == CheckTemplates \/ BeginSheet \/ RenderRow \/ SaveSheet \/ OfferDownload

Spec == Init /\ [][Next]_vars

(***************************************************************************)
(* Unit harness: one call of one function on one argument drawn from a     *)
(* bounded set of inputs.                                                  *)
(***************************************************************************)
Strings(alphabet) == SeqsUpTo(alphabet, MaxLen)

RollAlphabet == {"0", "1", "9", "a", "-", ".", " "}

RollSamples == { <<"1", "2", "3", "4">>, <<"1", "2", ".", "0">>, <<"a", "b", "c", "d">>, <<"-", "1", "2", ".", "7">>, <<"i", "n", "f">>, <<"n", "a", "n">>, <<"I", "n", "f", "i", "n", "i", "t", "y">>,
                 <<" ", "4", "2", " ">>, <<"+", "7", ".", "5">>, <<"1", ".", "2", ".", "3">> }

RollInputs ==
    {NaN, DateCell}
    \cup {IntCell(n) : n \in (-MaxRoll)..MaxRoll}
    \cup {FloatCell(t) : t \in (-MaxRoll)..MaxRoll}
    \cup {StrCell(t) : t \in Strings(RollAlphabet) \cup RollSamples}

ClassAlphabet == {"0", "1", "2", "7", "i", "v", "x", "I", " ", "b"}

ClassSamples == { <<"C", "l", "a", "s", "s", " ", "7", "B">>, <<"C", "l", "a", "s", "s", "-", "7", "B">>, <<"G", "r", "a", "d", "e", " ", "4">>, <<"V", "I", "I">>, <<"v", "i", "i", "i">>, <<"X", "I", "I">>,
                  <<"s", "e", "v", "e", "n", "t", "h">>, <<"F", "i", "r", "s", "t">>, <<"t", "w", "e", "l", "f", "t", "h">>, <<"t", "h", "i", "r", "t", "e", "e", "n", "t", "h">>, <<" ", "i", "v", " ">>,
                  <<"1", "2", "t", "h">>, <<"a", "1", "0", "b", "1", "1">> }

ClassInputs ==
    {NaN}
    \cup {IntCell(n) : n \in 0..MaxGrade}
    \cup {FloatCell(t) : t \in 0..(10 * MaxGrade)}
    \cup {StrCell(t) : t \in Strings(ClassAlphabet) \cup ClassSamples}

HeaderPool == { <<"R", "o", "l", "l", " ", "N", "o", ".">>, <<"R", "O", "L", "L", "N", "O">>, <<"r", "o", "l", "l", "_", "n", "o">>, <<"E", "n", "r", "o", "l", "l", "n", "o">>, <<"C", "l", "a", "s", "s">>,
                <<"M", "y", " ", "C", "l", "a", "s", "s">>, <<"S", "c", "h", "o", "o", "l", " ", "N", "a", "m", "e">>, <<"N", "a", "m", "e">>, <<"S", "e", "c", "t", "i", "o", "n">>, <<"I", "d">> }

HeaderRows == {q \in SeqsUpTo(HeaderPool, MaxCols) : Distinct(q)}

HeaderInputs == HeaderRows \X DOMAIN aliases

BubbleAlphabet == Range(Digits) \cup {"a", "-"}

BubbleInputs == {"master", "child"} \X [1..3 -> BubbleAlphabet]

PipeIdle ==
    /\ sheet_names = <<>>
    /\ templates_ok = TRUE
    /\ sheet_idx = 0
    /\ df_cols = <<>>
    /\ df_rows = <<>>
    /\ col_map = [canon \in DOMAIN aliases |-> None]
    /\ row_idx = 0
    /\ pages = <<>>
    /\ zipf = <<>>
    /\ read_rows = <<>>
    /\ processed = <<>>
    /\ download = FALSE
    /\ load_failed = FALSE

UnitInit ==
    /\ pc = "unit"
    /\ res = <<>>
    /\ \/ fn = "format_roll_value" /\ arg \in RollInputs
       \/ fn = "parse_class_value" /\ arg \in ClassInputs
       \/ fn = "find_column" /\ arg \in HeaderInputs
       \/ fn = "fill_roll_bubbles" /\ arg \in BubbleInputs
    /\ PipeIdle

Returned(f) == pc = "unit_done" /\ fn = f

CallFormatRoll ==
    /\ pc = "unit" /\ fn = "format_roll_value"
    /\ res' = format_roll_value(arg)
    /\ pc' = "unit_done"
    /\ UNCHANGED <<fn, arg, sheet_names, templates_ok, sheet_idx, df_cols, df_rows,
                   col_map, row_idx, pages, zipf, read_rows, processed, download,
                   load_failed>>

CallParseClass ==
    /\ pc = "unit" /\ fn = "parse_class_value"
    /\ res' = parse_class_value(arg)
    /\ pc' = "unit_done"
    /\ UNCHANGED <<fn, arg, sheet_names, templates_ok, sheet_idx, df_cols, df_rows,
                   col_map, row_idx, pages, zipf, read_rows, processed, download,
                   load_failed>>

CallFindColumn ==
    /\ pc = "unit" /\ fn = "find_column"
    /\ res' = find_column(arg[1], aliases[arg[2]])
    /\ pc' = "unit_done"
    /\ UNCHANGED <<fn, arg, sheet_names, templates_ok, sheet_idx, df_cols, df_rows,
                   col_map, row_idx, pages, zipf, read_rows, processed, download,
                   load_failed>>

CallFillBubbles ==
    /\ pc = "unit" /\ fn = "fill_roll_bubbles"
    /\ res' = fill_roll_bubbles(arg[1], arg[2])
    /\ pc' = "unit_done"
    /\ UNCHANGED <<fn, arg, sheet_names, templates_ok, sheet_idx, df_cols, df_rows,
                   col_map, row_idx, pages, zipf, read_rows, processed, download,
                   load_failed>>

UnitNext == CallFormatRoll \/ CallParseClass \/ CallFindColumn \/ CallFillBubbles

UnitSpec == UnitInit /\ [][UnitNext]_vars

(***************************************************************************)
(* Properties.                                                             *)
(***************************************************************************)

\* C1: for every roll-number input, format_roll_value returns a string of
\* length exactly 3.
C1_LengthThree ==
    Returned("format_roll_value") => res.exc = "none" /\ Len(res.val) = 3

\* C1, the case that breaks it: a numeric roll number of four characters.
C1_FourCharacters ==
    /\ Returned("format_roll_value")
    /\ arg = IntCell(1000)
    /\ res = Ret(<<"1", "0", "0", "0">>)

\* C2: no roll-number or class value of a row is fatal: formatting, class
\* parsing, bubble filling and the text overlay complete for every row, so the
\* run only ever ends early because a template image failed to load.
C2_RowValuesNeverFatal == pc # "crashed"

\* C3 as stated: format_roll_value returns "000" for every missing, blank or
\* non-numeric roll number.
Blank(v) == isna(v) \/ (v.kind = "str" /\ \A i \in 1..Len(v.s) : IsSpace(v.s[i]))

NotCoercible(v) == v.kind = "str" /\ ~Blank(v) /\ float_of_str(v.s).kind \in {"ValueError", "nan"}

C3_NonNumericGivesZeros ==
    Returned("format_roll_value") /\ (Blank(arg) \/ NotCoercible(arg))
        => res = Ret(<<"0", "0", "0">>)

\* C3 as amended: format_roll_value returns "000" for a missing or blank roll
\* number; for a non-blank string that cannot be converted to an integer it
\* returns the string itself, left-padded with zeros to width 3 and cut to its
\* first 3 characters.
C3_BlankGivesZerosElsePadded ==
    Returned("format_roll_value") =>
        /\ Blank(arg) => res = Ret(<<"0", "0", "0">>)
        /\ NotCoercible(arg) =>
              /\ res.exc = "none"
              /\ Len(res.val) = 3
              /\ LET n == IF Len(arg.s) < 3 THEN Len(arg.s) ELSE 3
                     pad == 3 - n
                     sign == pad > 0 /\ arg.s[1] \in {"+", "-"}
                 IN  IF sign
                     THEN /\ res.val[1] = arg.s[1]
                          /\ \A i \in 2..(pad + 1) : res.val[i] = "0"
                          /\ \A i \in (pad + 2)..3 : res.val[i] = arg.s[i - pad]
                     ELSE /\ \A i \in 1..pad : res.val[i] = "0"
                          /\ \A i \in (pad + 1)..3 : res.val[i] = arg.s[i - pad]

C3_RawStringKept ==
    /\ Returned("format_roll_value")
    /\ arg = StrCell(<<"a">>)
    /\ res = Ret(<<"0", "0", "a">>)

\* C4: a page uses the child template, the child bubble layout and the child
\* text offset exactly when the parsed grade of its row is 1, 2 or 3; every other
\* grade and an unknown grade use the master template, and bubbles and text
\* always follow the variant of the background image.
ScaledX(table) == {table[i] * 10 : i \in 1..Len(table)}

C4_ChildIffGradeOneToThree ==
    \A k \in 1..Len(pages) :
        LET p == pages[k]
            child == parse_class_value(p.table[3]) \in {1, 2, 3}
            variant == IF child THEN "child" ELSE "master"
            xs == ScaledX(IF child THEN CHILD_ROLL_X_CM ELSE MASTER_ROLL_X_CM)
            top == IF child THEN CHILD_BUBBLE_Y_TOP_CM[1] - 200
                            ELSE MASTER_BUBBLE_Y_TOP_CM[1] - 210
        IN  /\ p.image = (IF child THEN child_omr_template ELSE master_omr_template)
            /\ p.bubble_layout = variant
            /\ p.text_layout = variant
            /\ \A c \in 1..Len(p.circles) : p.circles[c].x \in xs
            /\ \A c \in 1..Len(p.text) : p.text[c].x \in xs /\ p.text[c].y = top * 22

C4_BothVariantsDrawn ==
    /\ Len(pages) = 2
    /\ pages[1].table[3] = StrCell(<<"I", "I">>) /\ pages[1].image = child_omr_template
    /\ pages[2].table[3] = IntCell(4) /\ pages[2].image = master_omr_template

\* C5: find_column returns the first header whose normalized form equals an
\* alias; only if there is none, the first header whose normalized form contains
\* an alias; None if neither.  "Roll No.", "ROLLNO" and "roll_no" are exact
\* matches of roll_no.
Alnum(h) == SelectSeq(lower(h), LAMBDA c : c \in Range(LowerSeq) \cup Range(Digits))

RollHeaders == { <<"R", "o", "l", "l", " ", "N", "o", ".">>, <<"R", "O", "L", "L", "N", "O">>, <<"r", "o", "l", "l", "_", "n", "o">> }

C5_ExactBeforeSubstring ==
    Returned("find_column") =>
        LET cols == arg[1]
            al == Range(aliases[arg[2]])
            exact == {i \in 1..Len(cols) : Alnum(cols[i]) \in al}
            part == {i \in 1..Len(cols) : \E a \in al : Contains(Alnum(cols[i]), a)}
        IN  /\ exact # {} => res = cols[FirstIndex(exact)]
            /\ exact = {} /\ part # {} => res = cols[FirstIndex(part)]
            /\ exact = {} /\ part = {} => res = None
            /\ arg[2] = "roll_no" => \A i \in 1..Len(cols) : cols[i] \in RollHeaders => i \in exact

C5_ExactAfterSubstringHeader ==
    /\ Returned("find_column")
    /\ arg = << << <<"E", "n", "r", "o", "l", "l", "n", "o">>, <<"R", "O", "L", "L", "N", "O">> >>, "roll_no" >>
    /\ res = <<"R", "O", "L", "L", "N", "O">>

\* C6: parse_class_value: missing gives unknown; a stripped, lower-cased string
\* of digits gives that integer; otherwise the first digit run gives its integer;
\* otherwise an exact Roman numeral i..xii or ordinal first..twelfth gives 1..12;
\* anything else gives unknown.
C6_PriorityChain ==
    Returned("parse_class_value") =>
        IF arg.kind = "nan" THEN res = NoneInt
        ELSE LET s == lower(strip(str(arg)))
                 digits == {i \in 1..Len(s) : IsDigit(s[i])}
             IN  IF digits # {}
                 THEN \E i, j \in digits :
                         /\ \A d \in digits : i <= d
                         /\ \A m \in i..j : m \in digits
                         /\ (j + 1) \notin digits
                         /\ res = int_of_digits(SubSeq(s, i, j))
                 ELSE IF s \in Range(roman_map)
                 THEN res \in 1..12 /\ roman_map[res] = s
                 ELSE IF s \in Range(words_map)
                 THEN res \in 1..12 /\ words_map[res] = s
                 ELSE res = NoneInt

C6_DigitRunInsideText ==
    /\ Returned("parse_class_value")
    /\ arg = StrCell(<<"C", "l", "a", "s", "s", " ", "7", "B">>)
    /\ res = 7

\* C7: every worksheet is written as safe_filename(name) + ".pdf" and
\* worksheets with distinct names get distinct entry names.
C7_EntryNamesDistinct ==
    /\ \A k \in 1..Len(zipf) : zipf[k].name = safe_filename(sheet_names[k]) \o <<".", "p", "d", "f">>
    /\ \A i, j \in 1..Len(zipf) : i # j => zipf[i].name # zipf[j].name

\* C8: once a template image has failed to load, no further row or worksheet
\* is processed and the archive is never offered for download.
C8_LoadFailureAborts ==
    /\ [](load_failed => ~download)
    /\ [][load_failed =>
            /\ processed' = processed
            /\ zipf' = zipf
            /\ pages' = pages
            /\ sheet_idx' = sheet_idx
            /\ download' = download]_vars

C8_FailedMidBatch ==
    /\ load_failed
    /\ pc = "stopped"
    /\ Len(zipf) = 1
    /\ Len(pages) = 1
    /\ ~download

\* C9: worksheets are archived in file order; the k-th page of a worksheet is
\* built from its k-th row; a worksheet's PDF is written only with one page for
\* every one of its rows; rows are taken in sheet order, sheet after sheet.
Before(a, b) == a[1] < b[1] \/ (a[1] = b[1] /\ a[2] < b[2])

C9_PagesFollowRows ==
    /\ \A k \in 1..Len(pages) : pages[k].row = k
    /\ Len(zipf) <= Len(read_rows)
    /\ \A k \in 1..Len(zipf) :
          /\ zipf[k].name = safe_filename(sheet_names[k]) \o <<".", "p", "d", "f">>
          /\ zipf[k].pdf = [j \in 1..read_rows[k] |-> j]
    /\ \A i, j \in 1..Len(processed) : i < j => Before(processed[i], processed[j])
    /\ pc = "done" =>
          /\ Len(zipf) = Len(sheet_names)
          /\ Range(processed) =
                {e \in (1..Len(read_rows)) \X (1..MaxRows) : e[2] <= read_rows[e[1]]}

C9_TwoSheetsTwoRows ==
    /\ pc = "done"
    /\ Len(zipf) = 2
    /\ Len(zipf[1].pdf) = 2
    /\ Len(zipf[2].pdf) = 2

\* C10: for a 3-character roll number the filling function stamps exactly one
\* circle for every position holding a digit d and none for any other position,
\* at x = column_x[i] / 2.2 and y = column_y_top[i] - d * row_spacing - 2.6 cm +
\* fine-tune offset (0.03 cm master, 0.2 cm child) in the variant's own
\* constants; at most three circles, and no two digit values of a column share
\* a y position.
ColumnX(variant) == IF variant = "master" THEN MASTER_ROLL_X_CM ELSE CHILD_ROLL_X_CM
ColumnYTop(variant) ==
    IF variant = "master" THEN MASTER_BUBBLE_Y_TOP_CM ELSE CHILD_BUBBLE_Y_TOP_CM
RowSpacing(variant) ==
    IF variant = "master" THEN MASTER_BUBBLE_SPACING_CM ELSE CHILD_BUBBLE_SPACING_CM
FineTune(variant) == IF variant = "master" THEN 3 ELSE 20

\* hundredths of a centimetre to page units: h / 100 cm * 2200 units per cm
BubbleX(variant, i) == (ColumnX(variant)[i] * 2200) \div 220
BubbleY(variant, i, d) ==
    (ColumnYTop(variant)[i] - d * RowSpacing(variant) - 260 + FineTune(variant)) * 22

C10_OneCirclePerDigit ==
    Returned("fill_roll_bubbles") =>
        LET variant == arg[1]
            roll == arg[2]
            digits == {i \in 1..3 : IsDigit(roll[i])}
            hits(i) == {k \in 1..Len(res.val) :
                          /\ res.val[k].x = BubbleX(variant, i)
                          /\ res.val[k].y = BubbleY(variant, i, DigitVal(roll[i]))}
        IN  /\ res.exc = "none"
            /\ Len(res.val) = Cardinality(digits)
            /\ Len(res.val) <= 3
            /\ \A i \in digits : Cardinality(hits(i)) = 1
            /\ \A i \in digits : \A k \in hits(i) : \A d \in 0..9 :
                  d # DigitVal(roll[i]) => res.val[k].y # BubbleY(variant, i, d)

C10_SkipsNonDigit ==
    /\ Returned("fill_roll_bubbles")
    /\ arg = <<"child", <<"5", "a", "0">> >>
    /\ Len(res.val) = 2
    /\ res.val[1].y # res.val[2].y

====
